---------------------------- MODULE Spec2Model ----------------------------
(***************************************************************************)
(* Finalyze: the ChromaDB-backed report store (Modules/store.py), the      *)
(* structured-output analyzer (Modules/analyzer.py), the provider client   *)
(* factory (Modules/providers.py) and the FastAPI handlers                 *)
(* (web_dashboard.py), as one state machine.                               *)
(*                                                                         *)
(* Python values.  A dict entry is Absent (key missing), None (key present *)
(* with value None) or Val(v).  Strings that end up inside a report id are *)
(* sequences of one-character strings, so that f-string formatting and     *)
(* str.replace are computed; other strings are TLA+ strings.               *)
(***************************************************************************)
EXTENDS Integers, Sequences, FiniteSets, TLC

VARIABLES
    reports,    \* the "reports" collection, in insertion order
    now,        \* the wall clock read by datetime.now()
    returned,   \* every (id, analysis) pair a save_report call has returned
    last,       \* the operation that ran last: its inputs and its response
    _client,    \* store.py's global: 0 for None, else the client instance
    created,    \* the PersistentClient instances created so far
    thread      \* the call each thread is in: its position and its locals

vars == <<reports, now, returned, last, _client, created, thread>>

(* ------------------------------ bounds --------------------------------- *)
MaxSaves == 3       \* save_report calls in one behaviour
MaxAnalyses == 4    \* records the collection holds under the web handlers
MaxTime  == 1       \* clock readings 0..MaxTime

(* --------------------------- Python values ----------------------------- *)
Absent == [t |-> "absent"]
None   == [t |-> "null"]
Val(v) == [t |-> "val", v |-> v]

\* dict.get(key, default): the default only when the key is missing
Get(x, default) == IF x = Absent THEN default ELSE x

\* truthiness of an optional str, of an optional list (or character
\* sequence), of an optional int
TruthyStr(x) == x.t = "val" /\ x.v # ""
TruthySeq(x) == x.t = "val" /\ Len(x.v) > 0
TruthyInt(x) == x.t = "val" /\ x.v # 0

UNKNOWN == <<"U", "N", "K", "N", "O", "W", "N">>
NoneStr == <<"N", "o", "n", "e">>

\* f"{x}" of a value that is a str or None
Fmt(x) == IF x = None THEN NoneStr ELSE x.v

\* str.replace(" ", "_")
Replace(s) == [i \in 1..Len(s) |-> IF s[i] = " " THEN "_" ELSE s[i]]

Digits == <<"0", "1", "2", "3", "4", "5", "6", "7", "8", "9">>

\* datetime.isoformat(): one character per clock reading
isoformat(t) == <<Digits[t + 1]>>

(* --------------------------- analysis dicts ---------------------------- *)
EmptyDict == [company_info |-> Absent, sentiment_analysis |-> Absent,
              analyst_summary |-> Absent, key_highlights |-> Absent,
              concerns_risks |-> Absent, error |-> Absent,
              exception |-> Absent, metadata |-> Absent]

NoCompanyInfo == [name |-> Absent, ticker |-> Absent, reporting_period |-> Absent]
NoSentiment   == [sentiment_score |-> Absent]

CompanyKeys   == <<"name", "ticker", "reporting_period">>
SentimentKeys == <<"sentiment_score">>
MetadataKeys  == <<"analyzed_at", "provider", "context_reports_used">>
LeafKeys      == <<"analyst_summary", "key_highlights", "concerns_risks",
                   "error", "exception">>

(* ------------------------- json.dumps / loads -------------------------- *)
\* JSON text is a sequence of members [k, e]; a missing key has no member,
\* None is the literal null, a nested dict is an object of members.
EncLeaf(x) == IF x = None THEN [j |-> "null"] ELSE [j |-> "lit", s |-> x.v]

EncMembers(d, keys) ==
    LET all == [i \in 1..Len(keys) |-> [k |-> keys[i], x |-> d[keys[i]]]]
        present == SelectSeq(all, LAMBDA m: m.x # Absent)
    IN  [i \in 1..Len(present) |-> [k |-> present[i].k, e |-> EncLeaf(present[i].x)]]

EncObj(x, keys) ==
    IF x = None THEN [j |-> "null"] ELSE [j |-> "obj", s |-> EncMembers(x.v, keys)]

dumps(a) ==
    LET sub == <<[k |-> "company_info", x |-> a.company_info, keys |-> CompanyKeys],
                 [k |-> "sentiment_analysis", x |-> a.sentiment_analysis, keys |-> SentimentKeys],
                 [k |-> "metadata", x |-> a.metadata, keys |-> MetadataKeys]>>
        present == SelectSeq(sub, LAMBDA m: m.x # Absent)
    IN  [i \in 1..Len(present) |->
            [k |-> present[i].k, e |-> EncObj(present[i].x, present[i].keys)]]
        \o EncMembers(a, LeafKeys)

Member(js, key) == SelectSeq(js, LAMBDA m: m.k = key)

DecLeaf(js, key) ==
    LET m == Member(js, key)
    IN  IF m = <<>> THEN Absent
        ELSE IF m[1].e.j = "null" THEN None ELSE Val(m[1].e.s)

DecObj(js, key, keys) ==
    LET m == Member(js, key)
    IN  IF m = <<>> THEN Absent
        ELSE IF m[1].e.j = "null" THEN None
        ELSE Val([k \in {keys[i] : i \in 1..Len(keys)} |-> DecLeaf(m[1].e.s, k)])

loads(js) ==
    [company_info       |-> DecObj(js, "company_info", CompanyKeys),
     sentiment_analysis |-> DecObj(js, "sentiment_analysis", SentimentKeys),
     analyst_summary    |-> DecLeaf(js, "analyst_summary"),
     key_highlights     |-> DecLeaf(js, "key_highlights"),
     concerns_risks     |-> DecLeaf(js, "concerns_risks"),
     error              |-> DecLeaf(js, "error"),
     exception          |-> DecLeaf(js, "exception"),
     metadata           |-> DecObj(js, "metadata", MetadataKeys)]


(* ------------------------------ the store ------------------------------ *)
\* (mutant) the summary put in front of the company and period lines
_build_document_summary_first(analysis) ==
    LET company    == Get(analysis.company_info, Val(NoCompanyInfo)).v
        summary    == Get(analysis.analyst_summary, Val(""))
        highlights == Get(analysis.key_highlights, Val(<<>>))
        concerns   == Get(analysis.concerns_risks, Val(<<>>))
    IN  (IF TruthyStr(summary)
            THEN <<[label |-> "", text |-> <<summary.v>>]>> ELSE <<>>)
        \o (IF TruthyStr(company.name)
            THEN <<[label |-> "Company: ", text |-> <<company.name.v>>]>> ELSE <<>>)
        \o (IF TruthySeq(company.reporting_period)
            THEN <<[label |-> "Period: ", text |-> company.reporting_period.v]>> ELSE <<>>)
        \o (IF TruthySeq(highlights)
            THEN <<[label |-> "Key highlights: ", text |-> highlights.v]>> ELSE <<>>)
        \o (IF TruthySeq(concerns)
            THEN <<[label |-> "Concerns: ", text |-> concerns.v]>> ELSE <<>>)

\* _build_document: the parts that "\n".join puts together, in order
_build_document(analysis) ==
    LET company    == Get(analysis.company_info, Val(NoCompanyInfo)).v
        summary    == Get(analysis.analyst_summary, Val(""))
        highlights == Get(analysis.key_highlights, Val(<<>>))
        concerns   == Get(analysis.concerns_risks, Val(<<>>))
    IN  (IF TruthyStr(company.name)
            THEN <<[label |-> "Company: ", text |-> <<company.name.v>>]>> ELSE <<>>)
        \o (IF TruthySeq(company.reporting_period)
            THEN <<[label |-> "Period: ", text |-> company.reporting_period.v]>> ELSE <<>>)
        \o (IF TruthyStr(summary)
            THEN <<[label |-> "", text |-> <<summary.v>>]>> ELSE <<>>)
        \o (IF TruthySeq(highlights)
            THEN <<[label |-> "Key highlights: ", text |-> highlights.v]>> ELSE <<>>)
        \o (IF TruthySeq(concerns)
            THEN <<[label |-> "Concerns: ", text |-> concerns.v]>> ELSE <<>>)

Ids(coll) == {coll[i].id : i \in 1..Len(coll)}

\* (mutant) an add that overwrites the record of an id already stored
collection_upsert(coll, rec) ==
    IF rec.id \in Ids(coll)
        THEN [i \in 1..Len(coll) |-> IF coll[i].id = rec.id THEN rec ELSE coll[i]]
        ELSE Append(coll, rec)

\* (mutant) an add that writes the collection anew from the writer's own
\* record, losing what other writers added
collection_add_rewriting(coll, rec) == <<rec>>

\* collection.add of one record: an id already in the collection is ignored
\* (the existing record stays as it is), a new id is appended
collection_add(coll, rec) ==
    IF rec.id \in Ids(coll) THEN coll ELSE Append(coll, rec)

\* the f-string of line 61 with its replace
report_id_of(ticker, quarter, timestamp) ==
    Replace(Fmt(ticker) \o <<"-">> \o Fmt(quarter) \o <<"-">> \o isoformat(timestamp))

\* save_report(analysis, company_name) at clock reading t.
\*   addOk:  the write to the persistent collection succeeds
\*   noneOk: the installed chromadb accepts None as a metadata value
\* Result: exc ("none" when it returned), the id returned, the collection after.
save_report(coll, analysis, company_name, t, addOk, noneOk) ==
    LET company_info == Get(analysis.company_info, Val(NoCompanyInfo))
        sa           == Get(analysis.sentiment_analysis, Val(NoSentiment))
        raise(e)     == [exc |-> e, id |-> <<>>, reports |-> coll]
    IN  IF company_info = None THEN raise("AttributeError")
        ELSE LET ticker    == Get(company_info.v.ticker, Val(UNKNOWN))
                 quarter   == Get(company_info.v.reporting_period, Val(<<>>))
                 report_id == report_id_of(ticker, quarter, t)
                 resolved_name ==
                     IF TruthyStr(company_name) THEN company_name
                     ELSE Get(company_info.v.name, Val("Unknown"))
             IN  IF sa = None THEN raise("AttributeError")
                 ELSE LET sentiment == Get(sa.v.sentiment_score, Val(0))
                          metadata ==
                              [company         |-> resolved_name,
                               ticker          |-> ticker,
                               quarter         |-> quarter,
                               timestamp       |-> t,
                               sentiment_score |-> IF TruthyInt(sentiment) THEN sentiment.v ELSE 0,
                               analysis_json   |-> dumps(analysis)]
                          rec == [id |-> report_id,
                                  document |-> _build_document(analysis),
                                  metadata |-> metadata]
                      IN  IF ~noneOk /\ (resolved_name = None \/ ticker = None \/ quarter = None)
                              THEN raise("ValueError")
                          ELSE IF ~addOk THEN raise("StoreError")
                          ELSE [exc |-> "none", id |-> report_id,
                                reports |-> collection_add(coll, rec)]

\* stable sort, descending by timestamp (list.sort(key=..., reverse=True))
RECURSIVE SortDesc(_)
SortDesc(s) ==
    IF s = <<>> THEN <<>>
    ELSE LET rest == SortDesc(Tail(s))
             h    == Head(s)
             \* h goes before the first element that is not newer than it
             pos  == Cardinality({i \in 1..Len(rest) : rest[i].timestamp > h.timestamp})
         IN  SubSeq(rest, 1, pos) \o <<h>> \o SubSeq(rest, pos + 1, Len(rest))

get_history(coll) ==
    SortDesc([i \in 1..Len(coll) |->
        [id              |-> coll[i].id,
         timestamp       |-> coll[i].metadata.timestamp,
         company         |-> coll[i].metadata.company,
         ticker          |-> coll[i].metadata.ticker,
         quarter         |-> coll[i].metadata.quarter,
         sentiment_score |-> coll[i].metadata.sentiment_score]])

\* get_report: None when the id is not stored
get_report(coll, report_id) ==
    LET hit == SelectSeq(coll, LAMBDA r: r.id = report_id)
    IN  IF hit = <<>> THEN None
        ELSE Val([id              |-> report_id,
                  timestamp       |-> hit[1].metadata.timestamp,
                  company         |-> hit[1].metadata.company,
                  sentiment_score |-> hit[1].metadata.sentiment_score,
                  analysis        |-> loads(hit[1].metadata.analysis_json)])

\* the records a where={"company": company} filter lets through
Where(coll, company) == SelectSeq(coll, LAMBDA r: r.metadata.company = Val(company))

\* what query_reports answers without asking the backend
NoQuery == [exc |-> "none", queries |-> 0, n_results |-> 0, rows |-> <<>>]

\* collection.query(n_results=..., where=...): the possible answers.  The
\* backend refuses n_results < 1; otherwise it returns the n_results nearest
\* of the filtered records (all of them when there are fewer); which ones
\* are nearest is the embedding's business, so every choice of that many
\* filtered records is possible.
collection_query(coll, n_results, company) ==
    IF n_results < 1
        THEN {[exc |-> "ValueError", queries |-> 1, n_results |-> n_results, rows |-> <<>>]}
    ELSE LET cand == IF company # "" THEN Where(coll, company) ELSE coll
             k    == IF n_results < Len(cand) THEN n_results ELSE Len(cand)
             pick(sel) == SelectSeq([i \in 1..Len(cand) |-> [i |-> i, r |-> cand[i]]],
                                    LAMBDA m: m.i \in sel)
         IN  {[exc |-> "none", queries |-> 1, n_results |-> n_results,
               rows |-> [j \in 1..k |->
                  [id       |-> pick(sel)[j].r.id,
                   company  |-> pick(sel)[j].r.metadata.company,
                   quarter  |-> pick(sel)[j].r.metadata.quarter,
                   summary  |-> pick(sel)[j].r.document]]]
              : sel \in {x \in SUBSET (1..Len(cand)) : Cardinality(x) = k}}

\* (mutant) query_reports without the return on an empty collection
query_reports_unguarded(coll, n, company) ==
    collection_query(coll, IF n < Len(coll) THEN n ELSE Len(coll), company)

\* (mutant) query_reports asking for n results, however many records exist
query_reports_unclamped(coll, n, company) ==
    IF Len(coll) = 0 THEN {NoQuery}
    ELSE collection_query(coll, n, company)

\* query_reports: the possible results; queries counts the calls of
\* collection.query, n_results is what the call asked for
query_reports(coll, n, company) ==
    IF Len(coll) = 0 THEN {NoQuery}
    ELSE collection_query(coll, IF n < Len(coll) THEN n ELSE Len(coll), company)

\* (mutant) the company's records cut to n without the sort by timestamp
get_company_context_unsorted(coll, company, n) ==
    IF Len(coll) = 0 THEN <<>>
    ELSE LET hit == Where(coll, company)
             rows == [i \in 1..Len(hit) |->
                           [id        |-> hit[i].id,
                            quarter   |-> hit[i].metadata.quarter,
                            timestamp |-> hit[i].metadata.timestamp,
                            summary   |-> hit[i].document]]
         IN  SubSeq(rows, 1, IF n < Len(rows) THEN n ELSE Len(rows))

\* (mutant) get_company_context without the where filter on the company
get_company_context_unfiltered(coll, company, n) ==
    IF Len(coll) = 0 THEN <<>>
    ELSE LET sorted == SortDesc([i \in 1..Len(coll) |->
                           [id        |-> coll[i].id,
                            quarter   |-> coll[i].metadata.quarter,
                            timestamp |-> coll[i].metadata.timestamp,
                            summary   |-> coll[i].document]])
         IN  SubSeq(sorted, 1, IF n < Len(sorted) THEN n ELSE Len(sorted))

get_company_context(coll, company, n) ==
    IF Len(coll) = 0 THEN <<>>
    ELSE LET hit == Where(coll, company)
             sorted == SortDesc([i \in 1..Len(hit) |->
                           [id        |-> hit[i].id,
                            quarter   |-> hit[i].metadata.quarter,
                            timestamp |-> hit[i].metadata.timestamp,
                            summary   |-> hit[i].document]])
         IN  SubSeq(sorted, 1, IF n < Len(sorted) THEN n ELSE Len(sorted))


(* ------------------------ providers and analyzer ----------------------- *)
PROVIDERS == {"anthropic", "openai", "gemini", "deepseek"}

\* provider ids a caller may pass; "ollama" is not in the registry
ProviderIds == PROVIDERS \cup {"ollama"}

\* create_client: exc and whether a client came back.  The registry lookup
\* of line 13 comes first.  cred: an api_key argument or the provider's
\* environment variable is set; without one, key is None and goes to the
\* SDK's constructor as it is.  ctorChecks: that constructor refuses a None
\* key (openai's and google's do, anthropic's builds the client and fails
\* at the first request).
create_client(provider, cred, ctorChecks) ==
    IF provider \notin PROVIDERS THEN [exc |-> "KeyError", client |-> FALSE, calls |-> 0]
    ELSE IF provider \in {"anthropic", "openai", "gemini", "deepseek"}
        THEN IF ~cred /\ ctorChecks
                THEN [exc |-> "SDKError", client |-> FALSE, calls |-> 0]
                ELSE [exc |-> "none", client |-> TRUE, calls |-> 0]
    ELSE [exc |-> "ValueError", client |-> FALSE, calls |-> 0]

\* call_provider: one request to the provider's endpoint per known id;
\* netOk: the request succeeds
call_provider(provider, netOk) ==
    IF provider \in {"anthropic", "openai", "deepseek", "gemini"}
        THEN [exc |-> IF netOk THEN "none" ELSE "ProviderError", calls |-> 1]
    ELSE [exc |-> "ValueError", calls |-> 0]

\* create_model: exc when no credential is configured for the provider
create_model(provider, cred) ==
    IF cred THEN "none" ELSE "ConfigurationError"

\* EarningsReportAnalyzer.__init__: exc ("none" when the analyzer is built)
Analyzer_init(provider, cred) ==
    IF provider \notin PROVIDERS THEN "ValueError"
    ELSE create_model(provider, cred)

\* (mutant) an _invoke_structured that invokes once more after a failed call
_invoke_structured_retrying(out) ==
    IF out.kind = "raise" THEN [exc |-> "ProviderError", data |-> EmptyDict, calls |-> 2]
    ELSE IF out.kind = "parsed" THEN [exc |-> "none", data |-> out.data, calls |-> 1]
    ELSE [exc |-> "none", data |-> EmptyDict, calls |-> 1]

\* _invoke_structured on a provider outcome: raises when the call raises,
\* {} when nothing was parsed, the model dump otherwise.  One network call.
_invoke_structured(out) ==
    IF out.kind = "raise" THEN [exc |-> "ProviderError", data |-> EmptyDict, calls |-> 1]
    ELSE IF out.kind = "parsed" THEN [exc |-> "none", data |-> out.data, calls |-> 1]
    ELSE [exc |-> "none", data |-> EmptyDict, calls |-> 1]

\* the provider calls one analyzer operation makes: each of the four has
\* one _invoke_structured in its try block and no loop around it
provider_calls(out) == _invoke_structured(out).calls

ErrorDict(msg, e) == [EmptyDict EXCEPT !.error = Val(msg), !.exception = Val(e)]

analyze_earnings(provider, out, t) ==
    LET r == _invoke_structured(out)
    IN  IF r.exc # "none" THEN ErrorDict("Analysis failed", r.exc)
        ELSE [r.data EXCEPT !.metadata =
                 Val([analyzed_at |-> Val(t), provider |-> Val(provider),
                      context_reports_used |-> Absent])]

analyze_with_context(provider, out, t, past_context) ==
    LET r == _invoke_structured(out)
    IN  IF r.exc # "none" THEN ErrorDict("Analysis failed", r.exc)
        ELSE [r.data EXCEPT !.metadata =
                 Val([analyzed_at |-> Val(t), provider |-> Val(provider),
                      context_reports_used |-> Val(Len(past_context))])]

\* compare_earnings and query return the dump as it is, or {"error": str(e)}
compare_earnings(out) ==
    LET r == _invoke_structured(out)
    IN  IF r.exc # "none" THEN [error |-> Val(r.exc), data |-> Absent]
        ELSE [error |-> Absent, data |-> IF out.kind = "parsed" THEN Val(out.data) ELSE Absent]

analyzer_query(out) ==
    LET r == _invoke_structured(out)
    IN  IF r.exc # "none" THEN [error |-> Val(r.exc), data |-> Absent]
        ELSE [error |-> Absent, data |-> IF out.kind = "parsed" THEN Val(out.data) ELSE Absent]


(* ------------------------------- inputs -------------------------------- *)
CI(name, ticker, period) ==
    Val([name |-> name, ticker |-> ticker, reporting_period |-> period])

Dump(ci, sa, summary, highlights) ==
    [EmptyDict EXCEPT !.company_info = ci, !.sentiment_analysis = sa,
                      !.analyst_summary = summary, !.key_highlights = highlights,
                      !.concerns_risks = None]

\* EarningsAnalysis.model_dump(): every schema key is present, None when the
\* model left it out
P1 == Dump(CI(Val("Acme Corp"), Val(<<"A">>), Val(<<"Q", " ", "1">>)),
           Val([sentiment_score |-> Val(70)]), Val("s1"), Val(<<"h1", "h2">>))
P2 == Dump(CI(Val("Acme Corp"), Val(<<"A">>), Val(<<"Q", " ", "1">>)),
           Val([sentiment_score |-> Val(0)]), Val("s2"), None)
P3 == Dump(None, None, None, None)
P4 == Dump(CI(None, None, None), Val([sentiment_score |-> None]), Val("s4"), None)

ParsedOutputs == {P1, P2, P3, P4}

\* what one provider call can come to
ProviderOutcomes ==
    {[kind |-> "raise"], [kind |-> "unparsed"]}
        \cup {[kind |-> "parsed", data |-> p] : p \in {P1, P3}}

\* a caller's own dict, with neither company_info nor sentiment_analysis
A5 == [EmptyDict EXCEPT !.analyst_summary = Val("s5")]

\* the dicts passed to save_report directly
Analyses == ParsedOutputs \cup {A5}

Names == {"", "Acme"}

\* the payloads save_report is given one at a time: every shape of the
\* company_info block and of the sentiment block a dict or a model dump can
\* have, with scores at zero, inside and outside 0..100
CompanyBlocks ==
    {Absent, None, CI(None, None, None),
     CI(Val("Acme Corp"), None, Val(<<"Q", " ", "1">>)),
     CI(Val("Acme Corp"), Val(<<"A">>), Val(<<"Q", " ", "1">>))}

Scores == {0, 70, 150, -5}

SentimentBlocks ==
    {Absent, None, Val([sentiment_score |-> None])}
        \cup {Val([sentiment_score |-> Val(x)]) : x \in Scores}

Payloads ==
    {[EmptyDict EXCEPT !.company_info = ci, !.sentiment_analysis = sa,
                       !.analyst_summary = Val("s")]
        : ci \in CompanyBlocks, sa \in SentimentBlocks}

\* the body of an /api/analyze request, by what the handler makes of it
AnalyzeInputs == {"no_file", "bad_file", "blank", "text"}

(* ---------------------------- web handlers ---------------------------- *)
ContextLimit == 3       \* get_company_context's default n
QueryLimit   == 5       \* n of the query handler

\* provider ids a request body may name
WebProviders == {"anthropic", "ollama"}

\* how an extraction ended, by what the provider call came to
OutcomeOf(out) ==
    IF out.kind = "raise" THEN "error" ELSE IF out.kind = "parsed" THEN "ok" ELSE "empty"

\* (mutant) the handler reading the historical context after its save
analyze_saving_first(coll, inp, company_name, provider, cred, out, t, addOk, noneOk) ==
    LET base == [status |-> 200, exc |-> "none", body |-> None, calls |-> 0,
                 mode |-> "none", outcome |-> "none", ctx |-> <<>>,
                 save |-> "none", id |-> <<>>, reports |-> coll]
    IN  IF inp = "no_file" THEN [base EXCEPT !.status = 400]
        ELSE IF inp = "bad_file" THEN [base EXCEPT !.status = 400, !.exc = "ValueError"]
        ELSE IF inp = "blank" THEN [base EXCEPT !.status = 400]
        ELSE
        LET past_context == IF company_name # ""
                               THEN get_company_context(coll, company_name, ContextLimit)
                               ELSE <<>>
            built == Analyzer_init(provider, cred)
        IN  IF built # "none"
                THEN [base EXCEPT !.status = 500, !.exc = built, !.ctx = past_context]
            ELSE
            LET result == IF past_context # <<>>
                             THEN analyze_with_context(provider, out, t, past_context)
                             ELSE analyze_earnings(provider, out, t)
                ran == [base EXCEPT !.calls = provider_calls(out), !.ctx = past_context,
                            !.mode = IF past_context # <<>> THEN "context" ELSE "plain",
                            !.outcome = OutcomeOf(out)]
                company_info == Get(result.company_info, Val(NoCompanyInfo))
            IN  IF company_name = "" /\ company_info = None
                    THEN [ran EXCEPT !.status = 500, !.exc = "AttributeError"]
                ELSE
                LET resolved_name == IF company_name # "" THEN Val(company_name)
                                     ELSE Get(company_info.v.name, Val("Unknown"))
                    r == save_report(coll, result, resolved_name, t, addOk, noneOk)
                IN  IF r.exc # "none"
                        THEN [ran EXCEPT !.status = 500, !.exc = r.exc, !.save = "failed"]
                    ELSE [ran EXCEPT !.body = Val(result), !.save = "done",
                                     !.id = r.id, !.reports = r.reports,
                                     !.ctx = IF company_name # ""
                                                THEN get_company_context(r.reports, company_name,
                                                                         ContextLimit)
                                                ELSE <<>>]

\* POST /api/analyze on collection coll at clock reading t.
\*   inp: what the body holds; cred: a credential is configured;
\*   out: what the provider call comes to; addOk, noneOk: as in save_report
analyze(coll, inp, company_name, provider, cred, out, t, addOk, noneOk) ==
    LET base == [status |-> 200, exc |-> "none", body |-> None, calls |-> 0,
                 mode |-> "none", outcome |-> "none", ctx |-> <<>>,
                 save |-> "none", id |-> <<>>, reports |-> coll]
    IN  IF inp = "no_file" THEN [base EXCEPT !.status = 400]
        ELSE IF inp = "bad_file" THEN [base EXCEPT !.status = 400, !.exc = "ValueError"]
        ELSE IF inp = "blank" THEN [base EXCEPT !.status = 400]
        ELSE
        LET past_context == IF company_name # ""
                               THEN get_company_context(coll, company_name, ContextLimit)
                               ELSE <<>>
            built == Analyzer_init(provider, cred)
        IN  IF built # "none"
                THEN [base EXCEPT !.status = 500, !.exc = built, !.ctx = past_context]
            ELSE
            LET result == IF past_context # <<>>
                             THEN analyze_with_context(provider, out, t, past_context)
                             ELSE analyze_earnings(provider, out, t)
                ran == [base EXCEPT !.calls = provider_calls(out), !.ctx = past_context,
                            !.mode = IF past_context # <<>> THEN "context" ELSE "plain",
                            !.outcome = OutcomeOf(out)]
                company_info == Get(result.company_info, Val(NoCompanyInfo))
            IN  IF company_name = "" /\ company_info = None
                    THEN [ran EXCEPT !.status = 500, !.exc = "AttributeError"]
                ELSE
                LET resolved_name == IF company_name # "" THEN Val(company_name)
                                     ELSE Get(company_info.v.name, Val("Unknown"))
                    r == save_report(coll, result, resolved_name, t, addOk, noneOk)
                IN  IF r.exc # "none"
                        THEN [ran EXCEPT !.status = 500, !.exc = r.exc, !.save = "failed"]
                    ELSE [ran EXCEPT !.body = Val(result), !.save = "done",
                                     !.id = r.id, !.reports = r.reports]

\* the canned answer of the query handler
NoData == [answer |-> "No reports found", confidence |-> "low", sources |-> <<>>]

\* (mutant) the query handler without its "if not relevant" return
query_without_shortcut(user_query, provider, cred, relevant, out) ==
    LET base == [status |-> 200, exc |-> "none", body |-> None, calls |-> 0,
                 outcome |-> "none"]
    IN  IF user_query = "" THEN [base EXCEPT !.status = 400]
        ELSE LET built == Analyzer_init(provider, cred)
             IN  IF built # "none" THEN [base EXCEPT !.status = 500, !.exc = built]
                 ELSE [base EXCEPT !.body = Val(analyzer_query(out)), !.calls = provider_calls(out),
                                   !.outcome = OutcomeOf(out)]

\* POST /api/query, with the candidates the store returned
query(user_query, provider, cred, relevant, out) ==
    LET base == [status |-> 200, exc |-> "none", body |-> None, calls |-> 0,
                 outcome |-> "none"]
    IN  IF user_query = "" THEN [base EXCEPT !.status = 400]
        ELSE IF relevant = <<>> THEN [base EXCEPT !.body = Val(NoData)]
        ELSE LET built == Analyzer_init(provider, cred)
             IN  IF built # "none" THEN [base EXCEPT !.status = 500, !.exc = built]
                 ELSE [base EXCEPT !.body = Val(analyzer_query(out)), !.calls = provider_calls(out),
                                   !.outcome = OutcomeOf(out)]

\* (mutant) a compare handler that persists what it returns, as analyze does
compare_reports_persisting(coll, current_text, previous_text, provider, cred, out) ==
    LET base == [status |-> 200, exc |-> "none", body |-> None, calls |-> 0,
                 outcome |-> "none", reports |-> coll]
    IN  IF current_text = "" \/ previous_text = "" THEN [base EXCEPT !.status = 400]
        ELSE LET built == Analyzer_init(provider, cred)
             IN  IF built # "none" THEN [base EXCEPT !.status = 500, !.exc = built]
                 ELSE [base EXCEPT !.body = Val(compare_earnings(out)), !.calls = provider_calls(out),
                                   !.outcome = OutcomeOf(out),
                                   !.reports = save_report(coll, EmptyDict, Val(""), 0,
                                                           TRUE, TRUE).reports]

\* (mutant) a compare handler without its "Both reports required" return
compare_reports_unchecked(coll, current_text, previous_text, provider, cred, out) ==
    LET base == [status |-> 200, exc |-> "none", body |-> None, calls |-> 0,
                 outcome |-> "none", reports |-> coll]
        built == Analyzer_init(provider, cred)
    IN  IF built # "none" THEN [base EXCEPT !.status = 500, !.exc = built]
        ELSE [base EXCEPT !.body = Val(compare_earnings(out)),
                          !.calls = provider_calls(out),
                          !.outcome = OutcomeOf(out)]

\* POST /api/compare on collection coll; reports is the collection after
compare_reports(coll, current_text, previous_text, provider, cred, out) ==
    LET base == [status |-> 200, exc |-> "none", body |-> None, calls |-> 0,
                 outcome |-> "none", reports |-> coll]
    IN  IF current_text = "" \/ previous_text = "" THEN [base EXCEPT !.status = 400]
        ELSE LET built == Analyzer_init(provider, cred)
             IN  IF built # "none" THEN [base EXCEPT !.status = 500, !.exc = built]
                 ELSE [base EXCEPT !.body = Val(compare_earnings(out)), !.calls = provider_calls(out),
                                   !.outcome = OutcomeOf(out)]

\* GET /api/report/{analysis_id}
get_report_data(coll, analysis_id) ==
    LET report == get_report(coll, analysis_id)
    IN  IF report = None THEN [status |-> 404, body |-> None]
        ELSE [status |-> 200, body |-> Val(report.v.analysis)]

\* what a compare or query provider call can come to
OtherOutcomes ==
    {[kind |-> "raise"], [kind |-> "unparsed"], [kind |-> "parsed", data |-> "dump"]}

(* ---------------- the single-file analyzers: JSON from text ------------- *)
\* A response text is a sequence of tokens: "F" a ``` fence, "J" the label
\* json, "O" a JSON object, "x" any other text, " " whitespace or a newline.
MaxText == 5
Tokens  == {"F", "J", "O", "x", " "}
Texts   == UNION {[1..n -> Tokens] : n \in 0..MaxText}

\* the lengths of "```json" and of "```" in tokens (the + 7 and the + 3)
LabeledFence == <<"F", "J">>
Fence        == <<"F">>

\* pat in s
Contains(s, pat) ==
    \E i \in 0..(Len(s) - Len(pat)) : SubSeq(s, i + 1, i + Len(pat)) = pat

\* s.find(pat, start): the lowest index from start on, counted from 0; -1
\* when there is none
Find(s, pat, start) ==
    LET hits == {i \in start..(Len(s) - Len(pat)) : SubSeq(s, i + 1, i + Len(pat)) = pat}
    IN  IF hits = {} THEN -1 ELSE CHOOSE i \in hits : \A j \in hits : i <= j

\* s[a:b] for a >= 0: a negative b counts from the end
Slice(s, a, b) ==
    LET e == IF b < 0 THEN Len(s) + b ELSE IF b > Len(s) THEN Len(s) ELSE b
    IN  IF a + 1 > e THEN <<>> ELSE SubSeq(s, a + 1, e)

\* s.strip()
RECURSIVE Strip(_)
Strip(s) ==
    IF s = <<>> THEN s
    ELSE IF Head(s) = " " THEN Strip(Tail(s))
    ELSE IF s[Len(s)] = " " THEN Strip(SubSeq(s, 1, Len(s) - 1))
    ELSE s

\* json.loads: whitespace around the value is skipped; anything but one
\* JSON value raises JSONDecodeError
json_loads(s) ==
    IF Strip(s) = <<"O">> THEN [exc |-> "none", data |-> Val("O")]
    ELSE [exc |-> "JSONDecodeError", data |-> Absent]

\* the keys the three sites return on a failure; Absent: the key is missing
NoResult == [data |-> Absent, error |-> Absent, raw_analysis |-> Absent,
             exception |-> Absent]

\* the text between the first pat and the next fence, stripped
Fenced(s, pat) ==
    LET json_start == Find(s, pat, 0) + Len(pat)
        json_end   == Find(s, Fence, json_start)
    IN  Strip(Slice(s, json_start, json_end))

\* earnings_analyzer.py, analyze_earnings from the response text on
legacy_analyze_earnings(text) ==
    LET analysis_text == IF Contains(text, LabeledFence) THEN Fenced(text, LabeledFence)
                         ELSE IF Contains(text, Fence) THEN Fenced(text, Fence)
                         ELSE text
        r == json_loads(analysis_text)
    IN  IF r.exc = "none" THEN [NoResult EXCEPT !.data = r.data]
        ELSE [NoResult EXCEPT !.error = Val("Failed to parse JSON response"),
                              !.raw_analysis = Val(analysis_text),
                              !.exception = Val(r.exc)]

\* earnings_analyzer.py, compare_earnings from the response text on
legacy_compare_earnings(text) ==
    LET analysis_text == IF Contains(text, LabeledFence) THEN Fenced(text, LabeledFence)
                         ELSE text
        r == json_loads(analysis_text)
    IN  IF r.exc = "none" THEN [NoResult EXCEPT !.data = r.data]
        ELSE [NoResult EXCEPT !.error = Val(r.exc)]

\* enhanced_analyzer.py, _analyze_text from the response text on
_analyze_text(text) ==
    LET analysis_text == IF Contains(text, LabeledFence) THEN Fenced(text, LabeledFence)
                         ELSE text
        r == json_loads(analysis_text)
    IN  IF r.exc = "none" THEN [NoResult EXCEPT !.data = r.data]
        ELSE [NoResult EXCEPT !.error = Val("Analysis failed: " \o r.exc)]

(* ---------------------------- file uploads ----------------------------- *)
MAX_FILE_SIZE == 10 * 1024 * 1024

ALLOWED_EXTENSIONS ==
    {<<".", "p", "d", "f">>, <<".", "d", "o", "c", "x">>, <<".", "t", "x", "t">>}

\* str.lower(), on the characters file names are made of here
Lower(s) ==
    [i \in 1..Len(s) |->
        CASE s[i] = "P" -> "p" [] s[i] = "D" -> "d" [] s[i] = "F" -> "f" [] OTHER -> s[i]]

\* os.path.splitext(filename)[1]: the name from its last dot on; "" when
\* there is no dot, or nothing but dots in front of the last one
splitext(filename) ==
    LET dots == {i \in 1..Len(filename) : filename[i] = "."}
        last_dot == IF dots = {} THEN 0
                    ELSE CHOOSE i \in dots : \A j \in dots : j <= i
    IN  IF last_dot = 0 \/ (\A i \in 1..last_dot : filename[i] = ".") THEN <<>>
        ELSE SubSeq(filename, last_dot, Len(filename))

\* extract_from_pdf_bytes / _docx_bytes / _txt_bytes: available is
\* PDF_AVAILABLE or DOCX_AVAILABLE, text what the loader reads out of the file
Extracted(loader, text) == [exc |-> "none", error |-> "", loader |-> loader, text |-> text]
Refused(exc, error)     == [exc |-> exc, error |-> error, loader |-> "none", text |-> ""]

extract_from_pdf_bytes(available, text) ==
    IF ~available THEN Refused("ImportError", "pypdf is required") ELSE Extracted("pdf", text)

extract_from_docx_bytes(available, text) ==
    IF ~available THEN Refused("ImportError", "docx2txt is required") ELSE Extracted("docx", text)

extract_from_txt_bytes(text) == Extracted("txt", text)

\* (mutant) the size looked at before the extension
extract_from_uploaded_file_size_first(size, filename, available, text) ==
    LET ext == Lower(splitext(filename))
    IN  IF size > MAX_FILE_SIZE THEN Refused("ValueError", "File too large")
        ELSE IF ext \notin ALLOWED_EXTENSIONS THEN Refused("ValueError", "Unsupported file type")
        ELSE IF ext = <<".", "p", "d", "f">> THEN extract_from_pdf_bytes(available, text)
        ELSE IF ext = <<".", "d", "o", "c", "x">> THEN extract_from_docx_bytes(available, text)
        ELSE extract_from_txt_bytes(text)

\* extract_from_uploaded_file(data, filename), size being len(data)
extract_from_uploaded_file(size, filename, available, text) ==
    LET ext == Lower(splitext(filename))
    IN  IF ext \notin ALLOWED_EXTENSIONS THEN Refused("ValueError", "Unsupported file type")
        ELSE IF size > MAX_FILE_SIZE THEN Refused("ValueError", "File too large")
        ELSE IF ext = <<".", "p", "d", "f">> THEN extract_from_pdf_bytes(available, text)
        ELSE IF ext = <<".", "d", "o", "c", "x">> THEN extract_from_docx_bytes(available, text)
        ELSE extract_from_txt_bytes(text)

\* POST /api/analyze with a multipart body: the file goes through
\* extract_from_uploaded_file, a ValueError or ImportError of it is answered
\* 400, the text it returns goes the way of pasted text
analyze_upload(coll, size, filename, available, text, company_name, out, t) ==
    LET x == extract_from_uploaded_file(size, filename, available, text)
        refused == [status |-> 400, exc |-> x.exc, body |-> Val(x.error), calls |-> 0,
                    mode |-> "none", outcome |-> "none", ctx |-> <<>>,
                    save |-> "none", id |-> <<>>, reports |-> coll, loader |-> x.loader]
    IN  IF x.exc # "none" THEN refused
        ELSE LET r == analyze(coll, IF x.text = "" THEN "blank" ELSE "text",
                              company_name, "anthropic", TRUE, out, t, TRUE, TRUE)
             IN  [status |-> r.status, exc |-> r.exc, body |-> r.body, calls |-> r.calls,
                  mode |-> r.mode, outcome |-> r.outcome, ctx |-> r.ctx,
                  save |-> r.save, id |-> r.id, reports |-> r.reports, loader |-> x.loader]

\* the files of the upload requests
Filenames ==
    {<<"r", ".", "p", "d", "f">>, <<"r", ".", "P", "D", "F">>,
     <<"r", ".", "d", "o", "c", "x">>, <<"r", ".", "t", "x", "t">>,
     <<"r", ".", "e", "x", "e">>, <<"r", ".", "t", "x", "t", ".", "e", "x", "e">>,
     <<"r", ".", "e", "x", "e", ".", "t", "x", "t">>,
     <<"r">>, <<".", "t", "x", "t">>, <<"r", ".">>}

FileSizes == {0, MAX_FILE_SIZE, MAX_FILE_SIZE + 1}


(* --------------------------- state machine ----------------------------- *)
Resp == [op |-> "init", status |-> 0, exc |-> "none", body |-> None,
         calls |-> 0, mode |-> "none", outcome |-> "none", ctx |-> <<>>,
         company |-> "", provider |-> "", arg |-> <<>>, save |-> "none",
         queries |-> 0, n_results |-> 0, id |-> <<>>, loader |-> "none"]

\* the threads, and a thread that is in no call
MaxThreads == 3
Threads == 1..MaxThreads
Idle == [pc |-> "idle", job |-> "none", analysis |-> EmptyDict, client |-> 0,
         ts |-> 0, id |-> <<>>, seen |-> <<>>]

\* no client yet, every thread idle
NoThreads ==
    /\ _client = 0
    /\ created = 0
    /\ thread = [t \in Threads |-> Idle]

Init ==
    /\ reports = <<>>
    /\ now = 0
    /\ returned = <<>>
    /\ last = Resp
    /\ NoThreads

\* An input the handler never reads is not drawn: it is held at one value.
Draw(S, read, held) == IF read THEN S ELSE {held}

\* the clock moves on
Tick ==
    /\ now < MaxTime
    /\ now' = now + 1
    /\ UNCHANGED <<reports, returned, last, _client, created, thread>>

\* a direct call of save_report
SaveReport ==
    \E analysis \in Analyses, company_name \in Names, addOk \in BOOLEAN :
    \E noneOk \in Draw(BOOLEAN, analysis = P4, TRUE) :
    \E r \in {save_report(reports, analysis, Val(company_name), now, addOk, noneOk)} :
            /\ Len(returned) < MaxSaves
            /\ reports' = r.reports
            /\ returned' = IF r.exc = "none"
                              THEN Append(returned, [id |-> r.id, analysis |-> analysis])
                              ELSE returned
            /\ last' = [Resp EXCEPT !.op = "save_report", !.exc = r.exc,
                                    !.company = company_name,
                                    !.body = IF r.exc = "none" THEN Val(r.id) ELSE None,
                                    !.save = IF r.exc = "none" THEN "done" ELSE "failed"]
            /\ UNCHANGED <<now, _client, created, thread>>

BogusId == <<"x">>

GetReport ==
    \E report_id \in Ids(reports) \cup {BogusId} :
        /\ last' = [Resp EXCEPT !.op = "get_report", !.arg = report_id,
                                !.body = get_report(reports, report_id)]
        /\ UNCHANGED <<reports, now, returned, _client, created, thread>>

GetHistory ==
    /\ last' = [Resp EXCEPT !.op = "get_history", !.body = Val(get_history(reports))]
    /\ UNCHANGED <<reports, now, returned, _client, created, thread>>

QueryReports ==
    \E n \in {0, 1, 5}, company \in Names :
        \E res \in query_reports(reports, n, company) :
            /\ last' = [Resp EXCEPT !.op = "query_reports", !.company = company,
                                    !.arg = <<n>>, !.exc = res.exc,
                                    !.queries = res.queries,
                                    !.n_results = res.n_results,
                                    !.body = Val(res.rows)]
            /\ UNCHANGED <<reports, now, returned, _client, created, thread>>

GetCompanyContext ==
    \E company \in Names \ {""}, n \in {1, 3} :
        /\ last' = [Resp EXCEPT !.op = "get_company_context", !.company = company,
                                !.arg = <<n>>,
                                !.body = Val(get_company_context(reports, company, n))]
        /\ UNCHANGED <<reports, now, returned, _client, created, thread>>

\* the provider layer's entry points, called directly
NewAnalyzer ==
    \E provider \in ProviderIds :
    \E cred \in Draw(BOOLEAN, provider \in PROVIDERS, TRUE) :
        /\ last' = [Resp EXCEPT !.op = "EarningsReportAnalyzer", !.provider = provider,
                                !.arg = <<cred>>,
                                !.exc = Analyzer_init(provider, cred)]
        /\ UNCHANGED <<reports, now, returned, _client, created, thread>>

CreateClient ==
    \E provider \in ProviderIds :
    \E cred \in Draw(BOOLEAN, provider \in PROVIDERS, TRUE) :
    \E ctorChecks \in Draw(BOOLEAN, provider \in PROVIDERS /\ ~cred, TRUE) :
        LET r == create_client(provider, cred, ctorChecks)
        IN  /\ last' = [Resp EXCEPT !.op = "create_client", !.provider = provider,
                                    !.arg = <<cred>>,
                                    !.exc = r.exc, !.calls = r.calls]
            /\ UNCHANGED <<reports, now, returned, _client, created, thread>>

CallProvider ==
    \E provider \in ProviderIds :
    \E netOk \in Draw(BOOLEAN, provider \in PROVIDERS, TRUE) :
        LET r == call_provider(provider, netOk)
        IN  /\ last' = [Resp EXCEPT !.op = "call_provider", !.provider = provider,
                                    !.exc = r.exc, !.calls = r.calls]
            /\ UNCHANGED <<reports, now, returned, _client, created, thread>>

\* the modules' functions called directly: the store and the provider layer
Next ==
    \/ Tick
    \/ SaveReport
    \/ GetReport
    \/ GetHistory
    \/ QueryReports
    \/ GetCompanyContext
    \/ NewAnalyzer
    \/ CreateClient
    \/ CallProvider

Spec == Init /\ [][Next]_vars

Analyze ==
    \E inp \in AnalyzeInputs, company_name \in Names :
    \E provider \in Draw(WebProviders, inp = "text", "anthropic") :
    \E cred \in Draw(BOOLEAN, inp = "text" /\ provider \in PROVIDERS, TRUE) :
    \E out \in Draw(ProviderOutcomes, inp = "text" /\ provider \in PROVIDERS /\ cred,
                    [kind |-> "raise"]) :
    \E addOk \in Draw(BOOLEAN, inp = "text" /\ provider \in PROVIDERS /\ cred, TRUE) :
    \E r \in {analyze(reports, inp, company_name, provider, cred, out, now, addOk, TRUE)} :
            /\ Len(r.reports) <= MaxAnalyses
            /\ reports' = r.reports
            /\ last' = [Resp EXCEPT !.op = "analyze", !.status = r.status, !.exc = r.exc,
                                    !.body = r.body, !.calls = r.calls, !.mode = r.mode,
                                    !.outcome = r.outcome, !.ctx = r.ctx,
                                    !.company = company_name, !.provider = provider,
                                    !.arg = <<inp>>, !.save = r.save, !.id = r.id]
            /\ UNCHANGED <<now, returned, _client, created, thread>>

Query ==
    \E user_query \in {"", "q"} :
    \E company \in Draw(Names, user_query # "", "") :
    \E found \in Draw(query_reports(reports, QueryLimit, company), user_query # "", NoQuery) :
    \E relevant \in {found.rows} :
    \E provider \in Draw(WebProviders, user_query # "" /\ relevant # <<>>, "anthropic") :
    \E cred \in Draw(BOOLEAN, user_query # "" /\ relevant # <<>> /\ provider \in PROVIDERS,
                     TRUE) :
    \E out \in Draw(OtherOutcomes,
                    user_query # "" /\ relevant # <<>> /\ provider \in PROVIDERS /\ cred,
                    [kind |-> "raise"]) :
    \E r \in {query(user_query, provider, cred, relevant, out)} :
            /\ last' = [Resp EXCEPT !.op = "query", !.status = r.status, !.exc = r.exc,
                                    !.body = r.body, !.calls = r.calls,
                                    !.outcome = r.outcome,
                                    !.company = company, !.provider = provider,
                                    !.arg = <<user_query>>, !.ctx = relevant]
            /\ UNCHANGED <<reports, now, returned, _client, created, thread>>

Compare ==
    \E current_text \in {"", "cur"}, previous_text \in {"", "prev"} :
    \E provider \in Draw(WebProviders, current_text # "" /\ previous_text # "", "anthropic") :
    \E cred \in Draw(BOOLEAN,
                     current_text # "" /\ previous_text # "" /\ provider \in PROVIDERS, TRUE) :
    \E out \in Draw(OtherOutcomes,
                    current_text # "" /\ previous_text # "" /\ provider \in PROVIDERS /\ cred,
                    [kind |-> "raise"]) :
    \E r \in {compare_reports(reports, current_text, previous_text, provider, cred, out)} :
            /\ reports' = r.reports
            /\ last' = [Resp EXCEPT !.op = "compare", !.status = r.status, !.exc = r.exc,
                                    !.body = r.body, !.calls = r.calls,
                                    !.outcome = r.outcome, !.provider = provider,
                                    !.arg = <<current_text, previous_text>>]
            /\ UNCHANGED <<now, returned, _client, created, thread>>

GetReportData ==
    \E analysis_id \in Ids(reports) \cup {BogusId} :
        LET r == get_report_data(reports, analysis_id)
        IN  /\ last' = [Resp EXCEPT !.op = "get_report_data", !.status = r.status,
                                    !.body = r.body, !.arg = analysis_id]
            /\ UNCHANGED <<reports, now, returned, _client, created, thread>>

\* the service: the web handlers
WebNext ==
    \/ Tick
    \/ Analyze
    \/ Query
    \/ Compare
    \/ GetReportData

WebSpec == Init /\ [][WebNext]_vars


\* the single-file analyzers, each on the response text the provider gave
TextInit ==
    /\ reports = <<>>
    /\ now = 0
    /\ returned = <<>>
    /\ last \in {[Resp EXCEPT !.op = "response", !.arg = text] : text \in Texts}
    /\ NoThreads

LegacyAnalyze ==
    /\ last.op = "response"
    /\ last' = [last EXCEPT !.op = "legacy_analyze",
                            !.body = Val(legacy_analyze_earnings(last.arg))]
    /\ UNCHANGED <<reports, now, returned, _client, created, thread>>

LegacyCompare ==
    /\ last.op = "response"
    /\ last' = [last EXCEPT !.op = "legacy_compare",
                            !.body = Val(legacy_compare_earnings(last.arg))]
    /\ UNCHANGED <<reports, now, returned, _client, created, thread>>

EnhancedAnalyze ==
    /\ last.op = "response"
    /\ last' = [last EXCEPT !.op = "enhanced_analyze",
                            !.body = Val(_analyze_text(last.arg))]
    /\ UNCHANGED <<reports, now, returned, _client, created, thread>>

TextNext ==
    \/ LegacyAnalyze
    \/ LegacyCompare
    \/ EnhancedAnalyze

TextSpec == TextInit /\ [][TextNext]_vars


\* save_report on one payload after the other
MaxPayloadSaves == 1

SavePayload ==
    \E analysis \in Payloads, company_name \in Names, noneOk \in BOOLEAN :
    \E r \in {save_report(reports, analysis, Val(company_name), now, TRUE, noneOk)} :
            /\ Len(returned) < MaxPayloadSaves
            /\ reports' = r.reports
            /\ returned' = IF r.exc = "none"
                              THEN Append(returned, [id |-> r.id, analysis |-> analysis])
                              ELSE returned
            /\ last' = [Resp EXCEPT !.op = "save_report", !.exc = r.exc,
                                    !.company = company_name,
                                    !.arg = <<analysis>>,
                                    !.id = r.id,
                                    !.save = IF r.exc = "none" THEN "done" ELSE "failed"]
            /\ UNCHANGED <<now, _client, created, thread>>

PayloadNext ==
    \/ Tick
    \/ SavePayload

PayloadSpec == Init /\ [][PayloadNext]_vars


\* the analyze handler on uploaded files
MaxUploads == 2     \* records the collection holds under the upload requests

AnalyzeUpload ==
    \E filename \in Filenames, size \in FileSizes :
    \E accepted \in {Lower(splitext(filename)) \in ALLOWED_EXTENSIONS /\ size <= MAX_FILE_SIZE} :
    \E available \in Draw(BOOLEAN, accepted /\ Lower(splitext(filename)) # <<".", "t", "x", "t">>,
                          TRUE) :
    \E text \in Draw({"", "text"}, accepted /\ available, "") :
    \E company_name \in Draw(Names, accepted /\ available /\ text # "", "") :
    \E out \in Draw({[kind |-> "raise"], [kind |-> "parsed", data |-> P1]},
                    accepted /\ available /\ text # "", [kind |-> "raise"]) :
    \E r \in {analyze_upload(reports, size, filename, available, text, company_name, out, now)} :
            /\ Len(r.reports) <= MaxUploads
            /\ reports' = r.reports
            /\ last' = [Resp EXCEPT !.op = "analyze_upload", !.status = r.status,
                                    !.exc = r.exc, !.body = r.body, !.calls = r.calls,
                                    !.mode = r.mode, !.outcome = r.outcome, !.ctx = r.ctx,
                                    !.company = company_name,
                                    !.arg = [filename |-> filename, size |-> size],
                                    !.save = r.save, !.id = r.id, !.loader = r.loader]
            /\ UNCHANGED <<now, returned, _client, created, thread>>

UploadNext ==
    \/ Tick
    \/ AnalyzeUpload

UploadSpec == Init /\ [][UploadNext]_vars


\* the store's functions called from threads.  A call of save_report or
\* get_history goes through _get_collection and get_client (store.py:15-25)
\* and then reads the clock and adds, or gets; another thread can run
\* between any two of these steps.  collection.add and collection.get are
\* single calls into the backend, which serialises them.
Jobs ==
    {[job |-> "save_report", analysis |-> a] : a \in {P1, P2, A5}}
        \cup {[job |-> "get_history", analysis |-> EmptyDict]}

ConcInit ==
    /\ reports = <<>>
    /\ now = 0
    /\ returned = <<>>
    /\ last = Resp
    /\ _client = 0
    /\ created = 0
    /\ thread \in {[t \in Threads |-> [Idle EXCEPT !.pc = "get_client", !.job = j[t].job,
                                                    !.analysis = j[t].analysis]]
                      : j \in [Threads -> Jobs]}

\* line 18: if _client is None
GetClientCheck(t) ==
    /\ thread[t].pc = "get_client"
    /\ thread' = [thread EXCEPT ![t].pc = IF _client = 0 THEN "create" ELSE "return"]
    /\ UNCHANGED <<reports, now, returned, last, _client, created>>

\* line 19: _client = chromadb.PersistentClient(path=...)
GetClientCreate(t) ==
    /\ thread[t].pc = "create"
    /\ created' = created + 1
    /\ _client' = created + 1
    /\ thread' = [thread EXCEPT ![t].pc = "return"]
    /\ UNCHANGED <<reports, now, returned, last>>

\* line 20: return _client, and on into the function that asked for it
GetClientReturn(t) ==
    /\ thread[t].pc = "return"
    /\ thread' = [thread EXCEPT ![t].client = _client,
                                ![t].pc = IF thread[t].job = "save_report"
                                             THEN "clock" ELSE "get"]
    /\ UNCHANGED <<reports, now, returned, last, _client, created>>

\* save_report, line 60: timestamp = datetime.now().isoformat()
SaveClock(t) ==
    /\ thread[t].pc = "clock"
    /\ thread' = [thread EXCEPT ![t].ts = now, ![t].pc = "add"]
    /\ UNCHANGED <<reports, now, returned, last, _client, created>>

\* save_report, lines 61-83: the record is built and added in one call
SaveAdd(t) ==
    /\ thread[t].pc = "add"
    /\ \E r \in {save_report(reports, thread[t].analysis, Val(""), thread[t].ts, TRUE, TRUE)} :
          /\ reports' = r.reports
          /\ thread' = [thread EXCEPT ![t].id = r.id, ![t].pc = "done"]
    /\ UNCHANGED <<now, returned, last, _client, created>>

\* get_history, lines 89-103
HistoryGet(t) ==
    /\ thread[t].pc = "get"
    /\ thread' = [thread EXCEPT ![t].seen = get_history(reports), ![t].pc = "done"]
    /\ UNCHANGED <<reports, now, returned, last, _client, created>>

ConcTick ==
    /\ now < MaxTime
    /\ now' = now + 1
    /\ UNCHANGED <<reports, returned, last, _client, created, thread>>

ConcNext ==
    \/ ConcTick
    \/ \E t \in Threads : GetClientCheck(t)
    \/ \E t \in Threads : GetClientCreate(t)
    \/ \E t \in Threads : GetClientReturn(t)
    \/ \E t \in Threads : SaveClock(t)
    \/ \E t \in Threads : SaveAdd(t)
    \/ \E t \in Threads : HistoryGet(t)

ConcSpec == ConcInit /\ [][ConcNext]_vars


(* ------------------------------- prompts ------------------------------- *)
MaxCtx == 3         \* entries of one historical context

\* past_context: None, or a list of dicts with the keys quarter and summary
\* (what get_company_context returns) or without them
CtxEntries ==
    {[quarter |-> Val("Q1"), summary |-> Val("s1")],
     [quarter |-> Val("Q2"), summary |-> Val("s2")],
     [quarter |-> Absent,    summary |-> Absent]}

Contexts ==
    {None} \cup {Val(c) : c \in UNION {[1..n -> CtxEntries] : n \in 0..MaxCtx}}

\* f" for {company_name}" if company_name else ""
company_context(company_name) ==
    IF company_name # "" THEN <<" for ", company_name>> ELSE <<>>

\* The context section, line by line: the heading, then for the i-th entry
\* the line "--- Report i (quarter) ---" and the summary.
ReportLines(i, ctx) ==
    <<[line |-> "report", n |-> i,
       text |-> Get(ctx.quarter, Val("Unknown period")).v],
      [line |-> "summary", n |-> 0, text |-> Get(ctx.summary, Val("")).v]>>

RECURSIVE ContextLines(_, _)
ContextLines(past_context, i) ==
    IF i > Len(past_context) THEN <<>>
    ELSE ReportLines(i, past_context[i]) \o ContextLines(past_context, i + 1)

Heading == [line |-> "heading", n |-> 0, text |-> "HISTORICAL CONTEXT FROM PREVIOUS REPORTS:"]

RECURSIVE ContextLinesNewestLast(_, _)
ContextLinesNewestLast(past_context, i) ==
    IF i > Len(past_context) THEN <<>>
    ELSE ReportLines(i, past_context[Len(past_context) + 1 - i])
            \o ContextLinesNewestLast(past_context, i + 1)

build_analysis_prompt(company_name) ==
    [variant |-> "plain", company_context |-> company_context(company_name),
     context_section |-> <<>>]

build_context_aware_prompt_newest_last(company_name, past_context) ==
    IF ~TruthySeq(past_context) THEN build_analysis_prompt(company_name)
    ELSE [variant |-> "context", company_context |-> company_context(company_name),
          context_section |-> <<Heading>> \o ContextLinesNewestLast(past_context.v, 1)]

build_context_aware_prompt(company_name, past_context) ==
    IF ~TruthySeq(past_context) THEN build_analysis_prompt(company_name)
    ELSE [variant |-> "context", company_context |-> company_context(company_name),
          context_section |-> <<Heading>> \o ContextLines(past_context.v, 1)]

\* prompts.format_context_section, which analyzer.py imports: the same
\* ordered list of (period, summary) pairs
format_context_section(past_context) ==
    <<Heading>> \o ContextLines(past_context, 1)

\* the messages analyze_with_context sends: always context_aware_prompt,
\* filled with the section of (past_context or [])
analyze_with_context_messages(company_name, past_context) ==
    [variant |-> "context", company_context |-> company_context(company_name),
     context_section |->
         format_context_section(IF TruthySeq(past_context) THEN past_context.v ELSE <<>>)]

PromptInit ==
    /\ reports = <<>>
    /\ now = 0
    /\ returned = <<>>
    /\ last \in {[Resp EXCEPT !.op = "past_context", !.arg = c, !.company = n]
                    : c \in Contexts, n \in Names}
    /\ NoThreads

BuildContextAwarePrompt ==
    /\ last.op = "past_context"
    /\ last' = [last EXCEPT !.op = "build_context_aware_prompt",
                            !.body = build_context_aware_prompt(last.company, last.arg)]
    /\ UNCHANGED <<reports, now, returned, _client, created, thread>>

AnalyzeWithContextMessages ==
    /\ last.op = "past_context"
    /\ last' = [last EXCEPT !.op = "analyze_with_context",
                            !.body = analyze_with_context_messages(last.company, last.arg)]
    /\ UNCHANGED <<reports, now, returned, _client, created, thread>>

PromptNext == BuildContextAwarePrompt \/ AnalyzeWithContextMessages

PromptSpec == PromptInit /\ [][PromptNext]_vars


(* ------------------------------- claims -------------------------------- *)

\* C1: the ids that save_report calls on one store have returned are
\* pairwise distinct, also for two saves with the same ticker and period (or
\* with both blank) made at the same clock reading.
C1_ReturnedIdsDistinct ==
    \A i, j \in 1..Len(returned) : i # j => returned[i].id # returned[j].id

\* C2: get_report of an id that save_report(A) returned yields a record
\* whose analysis is A, whatever was saved in between.
C2_SaveThenGet ==
    last.op = "get_report" =>
        \A k \in 1..Len(returned) :
            returned[k].id = last.arg =>
                last.body # None /\ last.body.v.analysis = returned[k].analysis

\* C3: the collection is append-only: every step leaves each stored record
\* where it is and as it is (id, document, metadata and payload), so
\* save_report overwrites nothing and the reads change nothing.
C3_AppendOnly ==
    [][/\ Len(reports') >= Len(reports)
       /\ \A i \in 1..Len(reports) : reports'[i] = reports[i]]_vars

\* C3 witness: save_report has returned for an id that was already stored
C3_Witness ==
    /\ last.op = "save_report"
    /\ last.exc = "none"
    /\ Len(reports) >= 1
    /\ Len(returned) > Len(reports)

\* a step of the handler named op: the step answers as op and is no stutter
\* of the collection and the response (a Tick leaves both as they are)
StepOf(op) == last'.op = op /\ <<reports, last>>' # <<reports, last>>

\* C4: an /api/analyze request adds no record when its extraction failed
\* and exactly one record when its extraction succeeded.
C4_PersistOnSuccessOnly ==
    [][StepOf("analyze") =>
          IF last'.outcome = "ok"
              THEN Len(reports') = Len(reports) + 1
              ELSE reports' = reports]_vars

\* C5: when extraction succeeded and save_report failed, /api/analyze still
\* answers with the structured analysis, not with an error response.
C5_AnalysisSurvivesSaveFailure ==
    (last.op = "analyze" /\ last.outcome = "ok" /\ last.save = "failed")
        => (last.status = 200 /\ last.body # None)

\* C6: when the provider call yields nothing parsable, the operation's
\* result carries an error indication; it is never a result with every
\* field missing.
C6_NoSilentEmptyResult ==
    (last.op \in {"analyze", "compare", "query"} /\ last.outcome = "empty"
        /\ last.body # None)
        => last.body.v.error # Absent

\* the records of company in collection coll, as indices
OfCompany(coll, company) ==
    {i \in 1..Len(coll) : coll[i].metadata.company = Val(company)}

\* C7: an /api/analyze request that reaches extraction runs the
\* context-aware one exactly when a company name was given and the store
\* held a record of that company before the request; the context is then
\* min(3, k) of the company's k records, most recent first, none older
\* than a record left out; otherwise plain extraction runs without context.
C7_ContextChoice ==
    [][(StepOf("analyze") /\ last'.mode # "none") =>
          LET mine == OfCompany(reports, last'.company)
              ctx  == last'.ctx
              in   == {i \in mine : \E j \in 1..Len(ctx) : ctx[j].id = reports[i].id}
          IN  /\ (last'.mode = "context") <=> (last'.company # "" /\ mine # {})
              /\ last'.mode = "plain" => ctx = <<>>
              /\ last'.mode = "context" =>
                    /\ Len(ctx) = (IF Cardinality(mine) < 3 THEN Cardinality(mine) ELSE 3)
                    /\ Cardinality(in) = Len(ctx)
                    /\ \A j \in 1..Len(ctx) : \E i \in mine :
                          /\ ctx[j].id = reports[i].id
                          /\ ctx[j].timestamp = reports[i].metadata.timestamp
                    /\ \A j, k \in 1..Len(ctx) :
                          j < k => ctx[j].timestamp >= ctx[k].timestamp
                    /\ \A i \in mine \ in : \A j \in 1..Len(ctx) :
                          reports[i].metadata.timestamp <= ctx[j].timestamp]_vars

\* C7 witness: a request ran context-aware extraction on three records
\* while the store held a fourth, older record of the same company
C7_Witness ==
    /\ last.op = "analyze"
    /\ last.mode = "context"
    /\ Len(last.ctx) = 3
    /\ last.save # "done"
    /\ \E i \in OfCompany(reports, last.company) :
          /\ \A j \in 1..3 : last.ctx[j].id # reports[i].id
          /\ reports[i].metadata.timestamp < last.ctx[1].timestamp

\* C8: a compare request leaves the collection as it was, whatever its
\* outcome (success, provider error, missing input).
C8_CompareNeverPersists ==
    [][StepOf("compare") => reports' = reports]_vars

\* C8 witness: a compare request succeeded on a store that holds records
C8_Witness ==
    /\ last.op = "compare"
    /\ last.status = 200
    /\ last.outcome = "ok"
    /\ Len(reports) >= 1

\* C9: a query for which the store returned no candidate is answered with
\* the canned low-confidence answer with empty sources and without a
\* provider call; a provider call is made only with at least one candidate.
C9_NoCandidatesNoCall ==
    (last.op = "query" /\ last.arg = <<"q">>) =>
        /\ last.ctx = <<>> =>
              /\ last.status = 200
              /\ last.calls = 0
              /\ last.body = Val(NoData)
              /\ last.body.v.confidence = "low"
              /\ last.body.v.sources = <<>>
        /\ last.calls > 0 => last.ctx # <<>>

\* C9 witness: the canned answer on a store that holds records, none of
\* the company asked for
C9_Witness ==
    /\ last.op = "query"
    /\ last.arg = <<"q">>
    /\ last.ctx = <<>>
    /\ last.company # ""
    /\ Len(reports) >= 1
    /\ last.body = Val(NoData)

\* C10: a provider id outside PROVIDERS fails with the configuration error
\* (the ValueError "Unknown provider") in the analyzer's constructor, in
\* create_client and in call_provider, before any network call.
C10_UnknownProviderIsConfigError ==
    (last.op \in {"EarningsReportAnalyzer", "create_client", "call_provider"}
        /\ last.provider \notin PROVIDERS)
        => (last.exc = "ValueError" /\ last.calls = 0)

\* C11: with a registered provider and no credential (no api_key argument,
\* environment variable unset) building the analyzer or the client fails
\* at once, before any network call: no usable object comes back.
C11_NoCredentialFailsFast ==
    (last.op \in {"EarningsReportAnalyzer", "create_client"}
        /\ last.provider \in PROVIDERS /\ last.arg = <<FALSE>>)
        => (last.exc # "none" /\ last.calls = 0)

\* C12: an analyze (plain or context-aware), compare or query operation
\* makes at most one provider call, also when that call fails.
C12_AtMostOneProviderCall ==
    last.op \in {"analyze", "compare", "query"} => last.calls <= 1

\* C12 witness: a context-aware analyze whose provider call failed
C12_Witness ==
    /\ last.op = "analyze"
    /\ last.mode = "context"
    /\ last.outcome = "error"
    /\ last.calls = 1

\* an error object with a message and, apart from it, the exception's text
HasMessageAndException(d) ==
    /\ {"error", "exception"} \subseteq DOMAIN d
    /\ d.error # Absent
    /\ d.exception # Absent

\* C13: when the provider call of an analyze, compare or query operation
\* fails, the operation returns an error object that carries a
\* human-readable message and the original exception text.
C13_ErrorObjectShape ==
    (last.op \in {"analyze", "compare", "query"} /\ last.outcome = "error"
        /\ last.body # None)
        => HasMessageAndException(last.body.v)

ExtractionSites == {"legacy_analyze", "legacy_compare", "enhanced_analyze"}

\* C14: every extraction site applies the same precedence (labeled fence,
\* else any fence, else the raw text): the three sites extract the same from
\* every response text, and a payload inside one unlabeled fence is parsed
\* as the payload without the fence is.
C14_SamePrecedenceEverySite ==
    last.op \in ExtractionSites =>
        /\ legacy_analyze_earnings(last.arg).data = last.body.v.data
        /\ legacy_compare_earnings(last.arg).data = last.body.v.data
        /\ _analyze_text(last.arg).data = last.body.v.data
        /\ \A payload \in Texts :
              (/\ last.arg = Fence \o payload \o Fence
               /\ ~Contains(payload, Fence)
               /\ ~Contains(last.arg, LabeledFence))
              => last.body.v.data = json_loads(payload).data

\* C15: when the response text does not parse, the failure an extraction
\* site returns holds the response text as it came, in its raw-text field.
C15_RawTextPreserved ==
    (last.op \in ExtractionSites /\ last.body.v.data = Absent)
        => last.body.v.raw_analysis = Val(last.arg)

\* C16: query_reports on an empty store returns the empty sequence, for
\* every limit and every company filter, without a query to the backend
\* and without failing.
C16_EmptyStoreEmptyResult ==
    (last.op = "query_reports" /\ Len(reports) = 0)
        => (last.body = Val(<<>>) /\ last.queries = 0 /\ last.exc = "none")

\* C16 witness: query_reports with limit 0 and a company filter has
\* answered on the empty store
C16_Witness ==
    /\ last.op = "query_reports"
    /\ Len(reports) = 0
    /\ last.arg = <<0>>
    /\ last.company # ""

\* C17: get_history returns one summary per stored record, in strictly
\* descending order of creation timestamp, and no summary holds the
\* analysis payload.
C17_HistoryStrictlyDescending ==
    last.op = "get_history" =>
        LET h == last.body.v
        IN  /\ Len(h) = Len(reports)
            /\ \A i \in 1..Len(reports) :
                  Cardinality({j \in 1..Len(h) : h[j].id = reports[i].id}) = 1
            /\ \A j \in 1..Len(h) :
                  {"analysis", "analysis_json"} \cap DOMAIN h[j] = {}
            /\ \A j, k \in 1..Len(h) : j < k => h[j].timestamp > h[k].timestamp

\* C18: get_company_context(c, n) returns min(n, k) entries, k being the
\* number of stored records whose company is exactly c; each entry is a
\* record of c, no record twice; the entries are ordered most recent first
\* and no record of c left out is more recent than one returned.
C18_CompanyContext ==
    last.op = "get_company_context" =>
        LET mine == OfCompany(reports, last.company)
            n    == last.arg[1]
            ctx  == last.body.v
            in   == {i \in mine : \E j \in 1..Len(ctx) : ctx[j].id = reports[i].id}
        IN  /\ Len(ctx) = (IF n < Cardinality(mine) THEN n ELSE Cardinality(mine))
            /\ Cardinality(in) = Len(ctx)
            /\ \A j \in 1..Len(ctx) : \E i \in mine :
                  /\ ctx[j].id = reports[i].id
                  /\ ctx[j].timestamp = reports[i].metadata.timestamp
                  /\ reports[i].metadata.company = Val(last.company)
            /\ \A j, k \in 1..Len(ctx) : j < k => ctx[j].timestamp >= ctx[k].timestamp
            /\ \A i \in mine \ in : \A j \in 1..Len(ctx) :
                  reports[i].metadata.timestamp <= ctx[j].timestamp

\* C18 witness: one entry asked for while the store holds two records of
\* the company, saved at different times, and a record of another company;
\* the entry returned is the newer one, stored first or not
C18_Witness ==
    /\ last.op = "get_company_context"
    /\ last.arg = <<1>>
    /\ Len(last.body.v) = 1
    /\ \E i \in OfCompany(reports, last.company) :
          reports[i].metadata.timestamp < last.body.v[1].timestamp
    /\ \E i \in 1..Len(reports) : reports[i].metadata.company # Val(last.company)

\* C19: on a store that holds records, query_reports(q, n, company) asks
\* the backend for min(n, number of stored records) results, never for
\* more than are stored; what it returns has at most that many entries, and
\* with a company filter every entry is of exactly that company.
C19_LimitClamped ==
    (last.op = "query_reports" /\ Len(reports) > 0) =>
        LET n     == last.arg[1]
            count == Len(reports)
            rows  == last.body.v
        IN  /\ last.queries = 1
            /\ last.n_results = (IF n < count THEN n ELSE count)
            /\ last.n_results <= count
            /\ last.exc = "none" =>
                  /\ Len(rows) <= last.n_results
                  /\ last.company # "" =>
                        \A j \in 1..Len(rows) : rows[j].company = Val(last.company)

\* C19 witness: a limit above the number of stored records, with a company
\* filter that lets some records through and keeps another out
C19_Witness ==
    /\ last.op = "query_reports"
    /\ last.arg = <<5>>
    /\ Len(reports) \in 2..4
    /\ last.company # ""
    /\ Len(last.body.v) >= 1
    /\ Len(last.body.v) < Len(reports)

\* C20: after an /api/analyze request whose extraction succeeded and whose
\* save returned, the record of the returned id carries the request's
\* company_name when one was given and the company name of the structured
\* result otherwise, and get_company_context for a given company_name
\* finds that record.
C20_StoredUnderResolvedCompany ==
    (last.op = "analyze" /\ last.outcome = "ok" /\ last.save = "done") =>
        LET expected == IF last.company # "" THEN Val(last.company)
                        ELSE last.body.v.company_info.v.name
            rec == get_report(reports, last.id)
            ctx == get_company_context(reports, last.company, Len(reports))
        IN  /\ rec # None
            /\ rec.v.company = expected
            /\ last.company # "" => \E j \in 1..Len(ctx) : ctx[j].id = last.id

\* C21: the sentiment_score metadata of every stored record is an integer
\* in 0..100, whatever score the saved payload carries.
C21_ScoreInRange ==
    \A i \in 1..Len(reports) : reports[i].metadata.sentiment_score \in 0..100

\* C22: the handlers answer 400 to a request without a file, with a file
\* that is refused, with blank earnings text, with a blank query or with a
\* report missing in a compare, and then make no provider call and leave
\* the store as it is; 404 to a report id that is not stored; 500 to every
\* failure that reaches the handler.
C22_StatusCodes ==
    [][/\ (StepOf("analyze") /\ last'.arg \in {<<"no_file">>, <<"bad_file">>, <<"blank">>})
              => (last'.status = 400 /\ last'.calls = 0 /\ reports' = reports)
       /\ (StepOf("query") /\ last'.arg = <<"">>)
              => (last'.status = 400 /\ last'.calls = 0 /\ reports' = reports)
       /\ (StepOf("compare") /\ (last'.arg[1] = "" \/ last'.arg[2] = ""))
              => (last'.status = 400 /\ last'.calls = 0 /\ reports' = reports)
       /\ (StepOf("get_report_data") /\ last'.arg \notin Ids(reports))
              => (last'.status = 404 /\ reports' = reports)
       /\ (/\ last'.op \in {"analyze", "query", "compare"}
           /\ <<reports, last>>' # <<reports, last>>
           /\ last'.exc # "none"
           /\ last'.arg # <<"bad_file">>)
              => last'.status = 500]_vars

\* C22 witness: a refused file answered with 400 on a store that holds
\* records
C22_Witness ==
    /\ last.op = "analyze"
    /\ last.arg = <<"bad_file">>
    /\ last.status = 400
    /\ Len(reports) >= 1

Saved(t) == thread[t].job = "save_report" /\ thread[t].pc = "done"

DistinctId(t) == \A v \in Threads \ {t} : thread[v].id # thread[t].id

C28_SingleClient ==
    /\ created <= 1
    /\ \A t, u \in Threads :
          (thread[t].client # 0 /\ thread[u].client # 0) =>
              thread[t].client = thread[u].client

\* the entries a call was given: past_context, or [] for None
Supplied == IF last.arg.t = "val" THEN last.arg.v ELSE <<>>

\* the context section holds, after its heading, one block per supplied
\* entry and nothing else; the i-th block is headed "Report i" with the
\* period of the i-th entry and carries the i-th entry's summary
InSuppliedOrder(section) ==
    /\ Len(section) = 1 + 2 * Len(Supplied)
    /\ \A i \in 1..Len(Supplied) :
          /\ section[2 * i].line = "report"
          /\ section[2 * i].n = i
          /\ section[2 * i].text =
                (IF Supplied[i].quarter = Absent THEN "Unknown period"
                                                 ELSE Supplied[i].quarter.v)
          /\ section[2 * i + 1].line = "summary"
          /\ section[2 * i + 1].text =
                (IF Supplied[i].summary = Absent THEN "" ELSE Supplied[i].summary.v)

\* C24: the context-aware prompt renders the historical context in the order
\* the caller supplied it: the i-th entry is "Report i", none is moved,
\* dropped or merged with an equal one.
C24_ContextInOrder ==
    (/\ last.op \in {"build_context_aware_prompt", "analyze_with_context"}
     /\ last.body.variant = "context") =>
        InSuppliedOrder(last.body.context_section)

\* C24 witness: three entries, the first and the third equal, the second an
\* entry without a period, have been rendered by build_context_aware_prompt
C24_Witness ==
    /\ last.op = "build_context_aware_prompt"
    /\ Len(Supplied) = 3
    /\ Supplied[1] = Supplied[3]
    /\ Supplied[1] # Supplied[2]
    /\ Supplied[2].quarter = Absent
    /\ Len(last.body.context_section) = 7

\* C25: the prompt variant depends on the historical context alone: the
\* plain prompt for a missing or empty context, the context-aware prompt for
\* a non-empty one, in build_context_aware_prompt and in analyze_with_context.
C25_VariantByContext ==
    last.op \in {"build_context_aware_prompt", "analyze_with_context"} =>
        last.body.variant = (IF Len(Supplied) > 0 THEN "context" ELSE "plain")

\* what a payload says about one part of the document: nothing when the
\* field is missing, null or empty
SaidStr(x) == IF x.t = "val" THEN (IF x.v # "" THEN <<x.v>> ELSE <<>>) ELSE <<>>
SaidSeq(x) == IF x.t = "val" THEN (IF x.v # <<>> THEN <<x.v>> ELSE <<>>) ELSE <<>>

\* the document a payload stands for: company, period, executive summary,
\* highlights and concerns in that order, a part that the payload does not
\* say left out
DocumentOf(payload) ==
    LET info == IF payload.company_info.t = "val" THEN payload.company_info.v
                                                  ELSE NoCompanyInfo
        all  == <<[label |-> "Company: ",        said |-> SaidStr(info.name), str |-> TRUE],
                  [label |-> "Period: ",         said |-> SaidSeq(info.reporting_period), str |-> FALSE],
                  [label |-> "",                 said |-> SaidStr(payload.analyst_summary), str |-> TRUE],
                  [label |-> "Key highlights: ", said |-> SaidSeq(payload.key_highlights), str |-> FALSE],
                  [label |-> "Concerns: ",       said |-> SaidSeq(payload.concerns_risks), str |-> FALSE]>>
        kept == SelectSeq(all, LAMBDA p : p.said # <<>>)
    IN  [i \in 1..Len(kept) |->
            [label |-> kept[i].label,
             text  |-> IF kept[i].str THEN kept[i].said ELSE kept[i].said[1]]]

C27_ContextThenCallThenSave ==
    [][StepOf("analyze") =>
          /\ \A k \in 1..Len(last'.ctx) :
                \E i \in 1..Len(reports) :
                    /\ reports[i].id = last'.ctx[k].id
                    /\ reports[i].document = last'.ctx[k].summary
                    /\ reports[i].metadata.timestamp = last'.ctx[k].timestamp
          /\ \A i \in (Len(reports) + 1)..Len(reports') :
                \A k \in 1..Len(last'.ctx) : last'.ctx[k].id # reports'[i].id
          /\ (last'.save # "none" => last'.calls = 1)]_vars

\* C27 witness: a request with a historical context has saved a record of
\* the same company, which is not in that context
C27_Witness ==
    /\ last.op = "analyze"
    /\ last.save = "done"
    /\ last.calls = 1
    /\ Len(last.ctx) >= 1
    /\ \E i \in 1..Len(reports) :
          /\ reports[i].id = last.id
          /\ reports[i].metadata.company = Val(last.company)
          /\ reports[i].metadata.timestamp > last.ctx[1].timestamp
    /\ \A k \in 1..Len(last.ctx) : last.ctx[k].id # last.id

\* C29: save_report returns for every payload, also one whose company_info,
\* ticker, reporting period or sentiment block is missing or null; the
\* record then has ticker "UNKNOWN" in its id and its metadata where the
\* payload has no ticker, company "Unknown" where there is neither an
\* override nor a name, and score 0 where there is no score.
C29_NullBlocksSaved ==
    last.op = "save_report" =>
        /\ last.exc = "none"
        /\ \E i \in 1..Len(reports) :
              /\ reports[i].id = last.id
              /\ LET m    == reports[i].metadata
                     a    == last.arg[1]
                     info == IF a.company_info.t = "val" THEN a.company_info.v
                                                         ELSE NoCompanyInfo
                     noScore == IF a.sentiment_analysis.t = "val"
                                   THEN a.sentiment_analysis.v.sentiment_score.t # "val"
                                   ELSE TRUE
                 IN  /\ (info.ticker.t # "val") =>
                            (m.ticker = Val(UNKNOWN) /\ SubSeq(last.id, 1, 7) = UNKNOWN)
                     /\ (last.company = "" /\ info.name.t # "val") =>
                            (m.company = Val("Unknown"))
                     /\ noScore => (m.sentiment_score = 0)

\* the upload is one extract_from_uploaded_file has to refuse
BadExtension == Lower(splitext(last'.arg.filename)) \notin ALLOWED_EXTENSIONS
TooLarge     == last'.arg.size > 10485760

\* C30: a file whose extension is not .pdf, .docx or .txt and a file of more
\* than 10 MB are refused with a ValueError, the extension being looked at
\* first (a large file with a bad extension is refused for its extension)
\* and no loader having run; the analyze handler then answers 400, calls no
\* provider and adds no record.
C30_UploadRefused ==
    [][StepOf("analyze_upload") =>
          /\ (BadExtension \/ TooLarge) =>
                /\ last'.exc = "ValueError"
                /\ last'.loader = "none"
                /\ last'.status = 400
                /\ last'.calls = 0
                /\ reports' = reports
          /\ BadExtension => last'.body = Val("Unsupported file type")
          /\ (TooLarge /\ ~BadExtension) => last'.body = Val("File too large")]_vars

\* C30 witness: into a store that holds a record, a file of more than 10 MB
\* with the extension .exe has been uploaded and refused
C30_Witness ==
    /\ last.op = "analyze_upload"
    /\ last.arg.size > 10485760
    /\ last.arg.filename = <<"r", ".", "t", "x", "t", ".", "e", "x", "e">>
    /\ last.status = 400
    /\ last.body = Val("Unsupported file type")
    /\ Len(reports) >= 1

=========================================================================
